---------------------------- MODULE Spec2Model ----------------------------
(***************************************************************************)
(* PackStream v1 codec of the neo4j Python driver's Rust extension.        *)
(*                                                                         *)
(* pack (src/src/v1/pack.rs) and unpack (src/src/v1/unpack.rs) are pure    *)
(* functions of their arguments and of the process-wide classifier table;  *)
(* they are modelled as recursive operators and applied by the actions of  *)
(* Spec.  The lazily initialised classifier table (TYPE_MAPPINGS and       *)
(* TYPE_MAPPINGS_INIT in pack.rs) is modelled as a state machine of        *)
(* interleaved pack calls in SpecOnce.                                     *)
(*                                                                         *)
(* Representation.                                                         *)
(*  - A byte is an integer in 0..255, a buffer a sequence of bytes.        *)
(*  - TLC integers are 32 bits wide, so an i64 / u64 is kept as its four   *)
(*    16-bit limbs <<w3, w2, w1, w0>>, most significant first (two's       *)
(*    complement for i64).                                                 *)
(*  - A Python object is a record whose field k is its type; a str is      *)
(*    kept as its UTF-8 bytes, a dict as the sequence of its (key, value)  *)
(*    pairs in insertion order, a float as the 8 bytes of its IEEE-754     *)
(*    bit pattern.                                                         *)
(*  - usize values of the decoder are TLC integers; a u32 length of 2^31   *)
(*    or more is kept as 2^31-1, which is larger than every buffer of the  *)
(*    model, so every comparison against the buffer has the same outcome.  *)
(***************************************************************************)
EXTENDS Integers, Sequences, FiniteSets, TLC

VARIABLES
    stream,      \* the values packed into buffer so far, in order
    packed,      \* result of the last pack call ("none" before the first)
    buffer,      \* the bytearray handed to unpack
    origin,      \* how buffer was built: "pack", "prefix", "raw", "wide",
                 \* "marker"
    hooks,       \* hydration_hooks argument of the unpack calls
    index,       \* idx argument of the next unpack call
    decoded,     \* results of the unpack calls made on buffer, in order
    header,      \* last header-writer call: [fn, size, out]
    cell,        \* TYPE_MAPPINGS: the GILOnceCell
    initFlag,    \* TYPE_MAPPINGS_INIT: the AtomicBool
    frames,      \* the pack calls in flight or returned, per caller
    initRuns,    \* how many times the body of init() has been entered
    compared,    \* last comparison of two Structures: [a, b, op, ret]
    hashed       \* the last Structures hashed, oldest first: [value, ret]

codecVars  == <<stream, packed, buffer, origin, hooks, index, decoded, header>>
onceVars   == <<cell, initFlag, frames, initRuns>>
structVars == <<compared, hashed>>
vars       == <<stream, packed, buffer, origin, hooks, index, decoded, header,
                cell, initFlag, frames, initRuns, compared, hashed>>

---------------------------------------------------------------------------
(* Marker grammar *)

TINY_STRING == 128
TINY_LIST == 144
TINY_MAP == 160
TINY_STRUCT == 176
NULL == 192
FLOAT_64 == 193
MARKER_FALSE == 194
MARKER_TRUE == 195
INT_8 == 200
INT_16 == 201
INT_32 == 202
INT_64 == 203
BYTES_8 == 204
BYTES_16 == 205
BYTES_32 == 206
STRING_8 == 208
STRING_16 == 209
STRING_32 == 210
LIST_8 == 212
LIST_16 == 213
LIST_32 == 214
MAP_8 == 216
MAP_16 == 217
MAP_32 == 218

---------------------------------------------------------------------------
(* 64-bit words as four 16-bit limbs *)

\* the i64 (sign extended) of an integer literal of at most 32 bits
I64(n) ==
    LET ext == IF n < 0 THEN 65535 ELSE 0
    IN  <<ext, ext, (n \div 65536) % 65536, n % 65536>>

\* the u64 of a non-negative integer literal of at most 31 bits
U64(n) == <<0, 0, n \div 65536, n % 65536>>

\* u64::try_from(size) of a usize: always Ok on a 64-bit build
usize_to_u64(n) == U64(n)

LexLe(a, b) ==
    \/ a[1] < b[1]
    \/ /\ a[1] = b[1]
       /\ \/ a[2] < b[2]
          \/ /\ a[2] = b[2]
             /\ \/ a[3] < b[3]
                \/ /\ a[3] = b[3]
                   /\ a[4] <= b[4]

\* a <= b on u64
LeU(a, b) == LexLe(a, b)

\* a <= b on i64: flipping the sign bit turns signed order into unsigned order
LeS(a, b) ==
    LexLe(<<(a[1] + 32768) % 65536, a[2], a[3], a[4]>>,
          <<(b[1] + 32768) % 65536, b[2], b[3], b[4]>>)

\* (lo..=hi).contains(&i) for 32-bit literals lo, hi
contains(lo, hi, i) == LeS(I64(lo), i) /\ LeS(i, I64(hi))

be16(w) == <<w \div 256, w % 256>>

\* i8::to_be_bytes(i as i8), i16::to_be_bytes(i as i16), ...: the cast keeps
\* the low bits
i8_to_be_bytes(i) == <<i[4] % 256>>
i16_to_be_bytes(i) == be16(i[4])
i32_to_be_bytes(i) == be16(i[3]) \o be16(i[4])
i64_to_be_bytes(i) == be16(i[1]) \o be16(i[2]) \o be16(i[3]) \o be16(i[4])

---------------------------------------------------------------------------
(* Python objects *)

PyNone == [k |-> "none"]
PyBool(b) == [k |-> "bool", b |-> b]
PyInt(w) == [k |-> "int", i |-> w]
PyFloat(bits) == [k |-> "float", f |-> bits]
PyStr(utf8) == [k |-> "str", s |-> utf8]
PyBytes(b) == [k |-> "bytes", y |-> b]
PyList(items) == [k |-> "list", items |-> items]
PyDict(entries) == [k |-> "dict", entries |-> entries]
Structure(tag, fields) == [k |-> "struct", tag |-> tag, fields |-> fields]

\* the classes a Python type is an instance of (bool subclasses int)
Mro(k) == IF k = "bool" THEN {"bool", "int"} ELSE {k}

is_instance(value, types) == Mro(value.k) \cap types # {}

\* what `from neo4j._codec.packstream.v1.types import *` binds
AllMappingNames ==
    <<"NONE_VALUES", "TRUE_VALUES", "FALSE_VALUES", "INT_TYPES",
      "FLOAT_TYPES", "SEQUENCE_TYPES", "MAPPING_TYPES", "BYTES_TYPES">>

TypesModule ==
    [NONE_VALUES |-> {PyNone},
     TRUE_VALUES |-> {PyBool(TRUE)},
     FALSE_VALUES |-> {PyBool(FALSE)},
     INT_TYPES |-> {"int"},
     FLOAT_TYPES |-> {"float"},
     SEQUENCE_TYPES |-> {"list", "tuple"},
     MAPPING_TYPES |-> {"dict"},
     BYTES_TYPES |-> {"bytes", "bytearray"}]

---------------------------------------------------------------------------
(* Encoder: src/src/v1/pack.rs *)

Ok(buf) == [st |-> "ok", buffer |-> buf]
Err(kind, msg, buf) == [st |-> "err", kind |-> kind, msg |-> msg, buffer |-> buf]

\* value.is(v) for some v of values
write_exact_value(value, values) == \E v \in values : value = v

write_int_tiny_to_128(buf, i) ==
    IF contains(-16, 128, i) THEN
        Ok(buf \o i8_to_be_bytes(i))
    ELSE IF contains(-32768, 32767, i) THEN
        Ok(buf \o <<INT_16>> \o i16_to_be_bytes(i))
    ELSE IF contains(-2147483647 - 1, 2147483647, i) THEN
        Ok(buf \o <<INT_32>> \o i32_to_be_bytes(i))
    ELSE
        Ok(buf \o <<INT_64>> \o i64_to_be_bytes(i))

write_int(buf, i) ==
    IF contains(-16, 127, i) THEN
        Ok(buf \o i8_to_be_bytes(i))
    ELSE IF contains(-128, 127, i) THEN
        Ok(buf \o <<INT_8>> \o i8_to_be_bytes(i))
    ELSE IF contains(-32768, 32767, i) THEN
        Ok(buf \o <<INT_16>> \o i16_to_be_bytes(i))
    ELSE IF contains(-2147483647 - 1, 2147483647, i) THEN
        Ok(buf \o <<INT_32>> \o i32_to_be_bytes(i))
    ELSE
        Ok(buf \o <<INT_64>> \o i64_to_be_bytes(i))

write_float(buf, f) == Ok(buf \o <<FLOAT_64>> \o f)

\* the header part of write_bytes
write_bytes_header(buf, size) ==
    IF LeU(size, U64(255)) THEN
        Ok(buf \o <<BYTES_8>> \o i8_to_be_bytes(size))
    ELSE IF LeU(size, U64(65535)) THEN
        Ok(buf \o <<BYTES_16>> \o i16_to_be_bytes(size))
    ELSE IF LeU(size, U64(2147483647)) THEN
        Ok(buf \o <<BYTES_32>> \o i32_to_be_bytes(size))
    ELSE
        Err("OverflowError", "Bytes header size out of range", buf)

\* self.buffer.extend(data) once the header h is written
extend(h, data) == IF h.st = "ok" THEN Ok(h.buffer \o data) ELSE h

write_bytes(buf, b) == extend(write_bytes_header(buf, usize_to_u64(Len(b))), b)

write_string_header_below_255(buf, size) ==
    IF LeU(size, U64(15)) THEN
        Ok(buf \o <<TINY_STRING + size[4]>>)
    ELSE IF LeU(size, U64(254)) THEN
        Ok(buf \o <<STRING_8>> \o i8_to_be_bytes(size))
    ELSE IF LeU(size, U64(65535)) THEN
        Ok(buf \o <<STRING_16>> \o i16_to_be_bytes(size))
    ELSE IF LeU(size, U64(2147483647)) THEN
        Ok(buf \o <<STRING_32>> \o i32_to_be_bytes(size))
    ELSE
        Err("OverflowError", "String header size out of range", buf)

\* the header part of write_string
write_string_header(buf, size) ==
    IF LeU(size, U64(15)) THEN
        Ok(buf \o <<TINY_STRING + size[4]>>)
    ELSE IF LeU(size, U64(255)) THEN
        Ok(buf \o <<STRING_8>> \o i8_to_be_bytes(size))
    ELSE IF LeU(size, U64(65535)) THEN
        Ok(buf \o <<STRING_16>> \o i16_to_be_bytes(size))
    ELSE IF LeU(size, U64(2147483647)) THEN
        Ok(buf \o <<STRING_32>> \o i32_to_be_bytes(size))
    ELSE
        Err("OverflowError", "String header size out of range", buf)

write_string(buf, s) == extend(write_string_header(buf, usize_to_u64(Len(s))), s)

write_list_header(buf, size) ==
    IF LeU(size, U64(15)) THEN
        Ok(buf \o <<TINY_LIST + size[4]>>)
    ELSE IF LeU(size, U64(255)) THEN
        Ok(buf \o <<LIST_8>> \o i8_to_be_bytes(size))
    ELSE IF LeU(size, U64(65535)) THEN
        Ok(buf \o <<LIST_16>> \o i16_to_be_bytes(size))
    ELSE IF LeU(size, U64(2147483647)) THEN
        Ok(buf \o <<LIST_32>> \o i32_to_be_bytes(size))
    ELSE
        Err("OverflowError", "List header size out of range", buf)

write_dict_header(buf, size) ==
    IF LeU(size, U64(15)) THEN
        Ok(buf \o <<TINY_MAP + size[4]>>)
    ELSE IF LeU(size, U64(255)) THEN
        Ok(buf \o <<MAP_8>> \o i8_to_be_bytes(size))
    ELSE IF LeU(size, U64(65535)) THEN
        Ok(buf \o <<MAP_16>> \o i16_to_be_bytes(size))
    ELSE IF LeU(size, U64(2147483647)) THEN
        Ok(buf \o <<MAP_32>> \o i32_to_be_bytes(size))
    ELSE
        Err("OverflowError", "Map header size out of range", buf)

write_struct_header_up_to_16(buf, tag, size) ==
    IF size > 16 THEN
        Err("OverflowError", "Structure size out of range", buf)
    ELSE
        Ok(buf \o <<TINY_STRUCT + size, tag>>)

\* size is the u8 the field count was converted to
write_struct_header(buf, tag, size) ==
    IF size > 15 THEN
        Err("OverflowError", "Structure size out of range", buf)
    ELSE
        Ok(buf \o <<TINY_STRUCT + size, tag>>)

\* fields.len().try_into() to u8, then write_struct_header
write_struct_size(buf, tag, len) ==
    IF len > 255 THEN
        Err("OverflowError", "Structure header size out of range", buf)
    ELSE
        write_struct_header(buf, tag, len)

\* dehydration_hooks: NoDehydration is None, otherwise table is the set of
\* <<type, transformer>> pairs get_transformer answers from
NoDehydration == [present |-> FALSE, table |-> {}]

get_transformer(dh, value) == {p[2] : p \in {q \in dh.table : q[1] = value.k}}

\* transformer.call1((value,)): the transformers of the model
call_transformer(f, value) ==
    IF f = "to_struct" THEN [st |-> "ok", val |-> Structure(88, value.payload)]
    ELSE IF f = "to_list" THEN [st |-> "ok", val |-> PyList(value.payload)]
    ELSE IF f = "to_wrapped" THEN
        [st |-> "ok", val |-> [k |-> "wrapped", payload |-> value.payload]]
    ELSE [st |-> "err", kind |-> "HookError", msg |-> "dehydration hook raised"]

RECURSIVE write(_, _, _, _)
RECURSIVE write_items(_, _, _, _)
RECURSIVE write_entries(_, _, _, _)

\* try_for_each(|item| self.write(item)) over a sequence or over fields; r is
\* the result of what was written before, the header first
write_items(r, items, dh, tm) ==
    IF r.st # "ok" \/ items = <<>> THEN r
    ELSE write_items(write(r.buffer, Head(items), dh, tm), Tail(items), dh, tm)

key_error_as_value_error(key, buf) ==
    Err("ValueError", "Map keys must be strings, not " \o key.k, buf)

\* the error of a key that key.extract::<&str>() refuses: it names the type
\* of the key
key_error(key, buf) ==
    Err("TypeError", "Map keys must be strings, not " \o key.k, buf)

\* self.write(value) of an entry; ks is the result of writing its key
write_entry_value(ks, value, dh, tm) ==
    IF ks.st # "ok" THEN ks ELSE write(ks.buffer, value, dh, tm)

\* try_for_each over items() of a mapping; r is the result of what was
\* written before, the header first
write_entries(r, entries, dh, tm) ==
    IF r.st # "ok" \/ entries = <<>> THEN r
    ELSE IF Head(entries)[1].k # "str" THEN key_error(Head(entries)[1], r.buffer)
    ELSE write_entries(write_entry_value(write_string(r.buffer, Head(entries)[1].s),
                                         Head(entries)[2], dh, tm),
                       Tail(entries), dh, tm)

\* self.write(transformer.call1((value,))?); t is the result of the call
write_dehydrated(buf, t, dh, tm) ==
    IF t.st # "ok" THEN Err(t.kind, t.msg, buf) ELSE write(buf, t.val, dh, tm)

\* write with the integer step moved in front of the identity steps
write_int_first(buf, value, dh, tm) ==
    IF is_instance(value, tm.int_types) /\ ~is_instance(value, tm.float_types) THEN
        write_int(buf, IF value.k = "bool"
                       THEN (IF value.b THEN I64(1) ELSE I64(0))
                       ELSE value.i)
    ELSE IF write_exact_value(value, tm.none_values) THEN Ok(buf \o <<NULL>>)
    ELSE IF write_exact_value(value, tm.true_values) THEN Ok(buf \o <<MARKER_TRUE>>)
    ELSE IF write_exact_value(value, tm.false_values) THEN Ok(buf \o <<MARKER_FALSE>>)
    ELSE IF is_instance(value, tm.float_types) THEN write_float(buf, value.f)
    ELSE IF is_instance(value, {"str"}) THEN write_string(buf, value.s)
    ELSE IF is_instance(value, tm.bytes_types) THEN write_bytes(buf, value.y)
    ELSE IF is_instance(value, tm.sequence_types) THEN
        write_items(write_list_header(buf, usize_to_u64(Len(value.items))),
                    value.items, dh, tm)
    ELSE IF is_instance(value, tm.mapping_types) THEN
        write_entries(write_dict_header(buf, usize_to_u64(Len(value.entries))),
                      value.entries, dh, tm)
    ELSE IF value.k = "struct" THEN
        write_items(write_struct_size(buf, value.tag, Len(value.fields)),
                    value.fields, dh, tm)
    ELSE IF dh.present /\ get_transformer(dh, value) # {} THEN
        write_dehydrated(buf,
                         call_transformer(CHOOSE f \in get_transformer(dh, value) : TRUE,
                                          value),
                         dh, tm)
    ELSE
        Err("ValueError", "Values of this type are not supported", buf)

write(buf, value, dh, tm) ==
    IF write_exact_value(value, tm.none_values) THEN Ok(buf \o <<NULL>>)
    ELSE IF write_exact_value(value, tm.true_values) THEN Ok(buf \o <<MARKER_TRUE>>)
    ELSE IF write_exact_value(value, tm.false_values) THEN Ok(buf \o <<MARKER_FALSE>>)
    ELSE IF is_instance(value, tm.float_types) THEN write_float(buf, value.f)
    ELSE IF is_instance(value, tm.int_types) THEN
        write_int(buf, IF value.k = "bool"
                       THEN (IF value.b THEN I64(1) ELSE I64(0))
                       ELSE value.i)
    ELSE IF is_instance(value, {"str"}) THEN write_string(buf, value.s)
    ELSE IF is_instance(value, tm.bytes_types) THEN write_bytes(buf, value.y)
    ELSE IF is_instance(value, tm.sequence_types) THEN
        write_items(write_list_header(buf, usize_to_u64(Len(value.items))),
                    value.items, dh, tm)
    ELSE IF is_instance(value, tm.mapping_types) THEN
        write_entries(write_dict_header(buf, usize_to_u64(Len(value.entries))),
                      value.entries, dh, tm)
    ELSE IF value.k = "struct" THEN
        write_items(write_struct_size(buf, value.tag, Len(value.fields)),
                    value.fields, dh, tm)
    ELSE IF dh.present /\ get_transformer(dh, value) # {} THEN
        write_dehydrated(buf,
                         call_transformer(CHOOSE f \in get_transformer(dh, value) : TRUE,
                                          value),
                         dh, tm)
    ELSE
        Err("ValueError", "Values of this type are not supported", buf)

\* TypeMappings::new over the names bound by the import
TypeMappings_new(locals) ==
    LET missing == {j \in 1..Len(AllMappingNames) : AllMappingNames[j] \notin locals}
    IN  IF missing # {} THEN
            [st |-> "err", kind |-> "ValueError",
             msg |-> AllMappingNames[CHOOSE j \in missing :
                                        \A m \in missing : j <= m]]
        ELSE
            [st |-> "ok",
             tm |-> [none_values |-> TypesModule.NONE_VALUES,
                     true_values |-> TypesModule.TRUE_VALUES,
                     false_values |-> TypesModule.FALSE_VALUES,
                     int_types |-> TypesModule.INT_TYPES,
                     float_types |-> TypesModule.FLOAT_TYPES,
                     sequence_types |-> TypesModule.SEQUENCE_TYPES,
                     mapping_types |-> TypesModule.MAPPING_TYPES,
                     bytes_types |-> TypesModule.BYTES_TYPES]]

\* what pack returns: PyBytes::new(py, &encoder.buffer), or the error of write
into_bytes(r) ==
    IF r.st = "ok" THEN [st |-> "ok", bytes |-> r.buffer]
    ELSE [st |-> "err", kind |-> r.kind, msg |-> r.msg]

\* pack refusing every call made once TYPE_MAPPINGS_INIT is set
pack_with_flag_first(mappings, value, dh) ==
    IF initFlag THEN
        [st |-> "err", kind |-> "ImportError",
         msg |-> "Cannot call _rust.pack while loading"]
    ELSE IF mappings.st # "ok" THEN
        [st |-> "err", kind |-> mappings.kind, msg |-> mappings.msg]
    ELSE into_bytes(write(<<>>, value, dh, mappings.tm))

\* the body of pack once get_type_mappings has returned mappings
pack_with(mappings, value, dh) ==
    IF mappings.st # "ok" THEN
        [st |-> "err", kind |-> mappings.kind, msg |-> mappings.msg]
    ELSE into_bytes(write(<<>>, value, dh, mappings.tm))

---------------------------------------------------------------------------
(* Decoder: src/src/v1/unpack.rs *)

\* results of the primitive reads
RawOk(val, idx) == [st |-> "ok", val |-> val, idx |-> idx]
RawErr(msg) == [st |-> "err", msg |-> msg]

\* results of read and of the readers it calls; calls is the sequence of
\* <<transform, argument>> invocations of hydration hooks made so far
DOk(val, idx, calls) == [st |-> "ok", val |-> val, idx |-> idx, calls |-> calls]
DErr(msg, calls) == [st |-> "err", msg |-> msg, calls |-> calls]
DPanic(msg, calls) == [st |-> "panic", msg |-> msg, calls |-> calls]

\* marker as i8
as_i8_sign_magnitude(b) == IF b >= 128 THEN 128 - b ELSE b
as_i8_no_cast(b) == b
as_i8(b) == IF b >= 128 THEN b - 256 ELSE b

read_byte(buf, idx) ==
    IF idx < Len(buf) THEN RawOk(buf[idx + 1], idx + 1)
    ELSE RawErr("Nothing to unpack")

read_n_bytes(buf, idx, N) ==
    IF idx <= Len(buf) /\ N <= Len(buf) - idx
    THEN RawOk(SubSeq(buf, idx + 1, idx + N), idx + N)
    ELSE RawErr("Nothing to unpack")

read_u8(buf, idx) == read_byte(buf, idx)

\* uN::from_be_bytes / iN::from_be_bytes of the bytes read (d is the result
\* of the read: `?` hands its error on)
u16_from_be_bytes(d) ==
    IF d.st # "ok" THEN d ELSE RawOk(d.val[1] * 256 + d.val[2], d.idx)

read_u16(buf, idx) == u16_from_be_bytes(read_n_bytes(buf, idx, 2))

u32_from_be_bytes(d) ==
    IF d.st # "ok" THEN d
    ELSE IF d.val[1] >= 128 THEN RawOk(2147483647, d.idx)
    ELSE RawOk(((d.val[1] * 256 + d.val[2]) * 256 + d.val[3]) * 256 + d.val[4],
               d.idx)

read_u32(buf, idx) == u32_from_be_bytes(read_n_bytes(buf, idx, 4))

i8_from_be_bytes(d) ==
    IF d.st # "ok" THEN d ELSE RawOk(I64(as_i8(d.val)), d.idx)

read_i8(buf, idx) == i8_from_be_bytes(read_byte(buf, idx))

i16_from_be_bytes(d) ==
    IF d.st # "ok" THEN d
    ELSE RawOk(I64(as_i8(d.val[1]) * 256 + d.val[2]), d.idx)

read_i16(buf, idx) == i16_from_be_bytes(read_n_bytes(buf, idx, 2))

\* the two upper limbs of a sign-extended 32-bit value with first byte b
sign_limb(b) == IF b >= 128 THEN 65535 ELSE 0

i32_from_be_bytes(d) ==
    IF d.st # "ok" THEN d
    ELSE RawOk(<<sign_limb(d.val[1]), sign_limb(d.val[1]),
                 d.val[1] * 256 + d.val[2], d.val[3] * 256 + d.val[4]>>, d.idx)

read_i32(buf, idx) == i32_from_be_bytes(read_n_bytes(buf, idx, 4))

i64_from_be_bytes(d) ==
    IF d.st # "ok" THEN d
    ELSE RawOk(<<d.val[1] * 256 + d.val[2], d.val[3] * 256 + d.val[4],
                 d.val[5] * 256 + d.val[6], d.val[7] * 256 + d.val[8]>>, d.idx)

read_i64(buf, idx) == i64_from_be_bytes(read_n_bytes(buf, idx, 8))

read_f64(buf, idx) == read_n_bytes(buf, idx, 8)

\* the length of the UTF-8 sequence a lead byte announces (0: not a lead byte)
utf8_width(b) ==
    IF b < 128 THEN 1
    ELSE IF b \in 194..223 THEN 2
    ELSE IF b \in 224..239 THEN 3
    ELSE IF b \in 240..244 THEN 4
    ELSE 0

\* String::from_utf8(d) is Ok: every byte is a lead byte followed by the
\* continuation bytes it announces (no overlong form, no surrogate, nothing
\* above U+10FFFF), or a continuation byte that such a lead byte covers
from_utf8(d) ==
    LET cont(j) == j <= Len(d) /\ d[j] \in 128..191
        lead_ok(i) ==
            /\ \A j \in (i + 1)..(i + utf8_width(d[i]) - 1) : cont(j)
            /\ (d[i] = 224 => d[i + 1] >= 160)
            /\ (d[i] = 237 => d[i + 1] <= 159)
            /\ (d[i] = 240 => d[i + 1] >= 144)
            /\ (d[i] = 244 => d[i + 1] <= 143)
        covered(i) ==
            \E back \in 1..3 :
                /\ i - back >= 1
                /\ utf8_width(d[i - back]) > back
                /\ \A j \in (i - back + 1)..(i - 1) : cont(j)
    IN  \A i \in 1..Len(d) :
            IF d[i] \in 128..191 THEN covered(i)
            ELSE utf8_width(d[i]) > 0 /\ lead_ok(i)

\* the slice self.bytes.as_bytes()[self.index..self.index + length] is in range
slice_in_range(buf, idx, length) == idx <= Len(buf) /\ length <= Len(buf) - idx

read_string(buf, idx, length, calls) ==
    IF length = 0 THEN DOk(PyStr(<<>>), idx, calls)
    ELSE IF ~slice_in_range(buf, idx, length) THEN
        DPanic("range end index out of range for slice", calls)
    ELSE LET data == SubSeq(buf, idx + 1, idx + length)
         IN  IF ~from_utf8(data) THEN DErr("invalid utf-8 sequence", calls)
             ELSE DOk(PyStr(data), idx + length, calls)

read_bytes(buf, idx, length, calls) ==
    IF length = 0 THEN DOk(PyBytes(<<>>), idx, calls)
    ELSE IF ~slice_in_range(buf, idx, length) THEN
        DPanic("range end index out of range for slice", calls)
    ELSE DOk(PyBytes(SubSeq(buf, idx + 1, idx + length)), idx + length, calls)

\* marker & 0xF0
high_nibble(marker) == (marker \div 16) * 16

\* the match of read_string_length on the marker byte m that was read
match_string_length(buf, m) ==
    IF m.st # "ok" THEN m
    ELSE IF high_nibble(m.val) = TINY_STRING THEN RawOk(m.val % 16, m.idx)
    ELSE IF high_nibble(m.val) = STRING_8 THEN read_u8(buf, m.idx)
    ELSE IF high_nibble(m.val) = STRING_16 THEN read_u16(buf, m.idx)
    ELSE IF high_nibble(m.val) = STRING_32 THEN read_u32(buf, m.idx)
    ELSE RawErr("Invalid string length marker")

read_string_length(buf, idx) == match_string_length(buf, read_byte(buf, idx))

\* dict.set_item(key, value): a key already present keeps its position
set_item(entries, key, val) ==
    IF \E j \in 1..Len(entries) : entries[j][1] = key
    THEN [j \in 1..Len(entries) |->
            IF entries[j][1] = key THEN <<key, val>> ELSE entries[j]]
    ELSE Append(entries, <<key, val>>)

RECURSIVE into_py_dict(_, _)
into_py_dict(pairs, acc) ==
    IF pairs = <<>> THEN acc
    ELSE into_py_dict(Tail(pairs), set_item(acc, Head(pairs)[1], Head(pairs)[2]))

\* hydration_hooks: NoHydration is None, otherwise table is the set of
\* <<key, transform>> entries of the dict; a key is a class or a tag
NoHydration == [present |-> FALSE, table |-> {}]
ClassKey(name) == [kind |-> "class", id |-> name]
TagKey(tag) == [kind |-> "tag", id |-> tag]

\* hooks.get_item(key)
get_item(hh, key) == {e[2] : e \in {x \in hh.table : x[1] = key}}

\* res.call((bolt_struct,)): the transforms of the model
call_hook(f, bolt_struct) ==
    IF f = "raise" THEN [st |-> "err", msg |-> "hydration hook raised"]
    ELSE IF f = "hydrate_unless_O" /\ bolt_struct.k = "struct" /\ bolt_struct.tag = 79 THEN
        [st |-> "err", msg |-> "hydration hook raised"]
    ELSE [st |-> "ok", val |-> [k |-> "app", by |-> f, arg |-> bolt_struct]]

RECURSIVE read(_, _, _, _)
RECURSIVE read_value(_, _, _, _, _)
RECURSIVE read_items(_, _, _, _, _, _)
RECURSIVE read_pairs(_, _, _, _, _, _)
RECURSIVE read_list(_, _, _, _, _)
RECURSIVE read_map(_, _, _, _, _)
RECURSIVE read_struct(_, _, _, _, _)

read(buf, idx, hh, calls) ==
    LET m == read_byte(buf, idx)
    IN  IF m.st # "ok" THEN DErr(m.msg, calls)
        ELSE read_value(buf, m.idx, m.val, hh, calls)

\* items.push(self.read()?) and the rest of the loop; r is what read returned
push_item(buf, r, n, hh, acc) ==
    IF r.st # "ok" THEN r
    ELSE read_items(buf, r.idx, n - 1, hh, r.calls, Append(acc, r.val))

\* the loop `for _ in 0..length { items.push(self.read()?) }`
read_items(buf, idx, n, hh, calls, acc) ==
    IF n = 0 THEN DOk(acc, idx, calls)
    ELSE push_item(buf, read(buf, idx, hh, calls), n, hh, acc)

\* key_value_pairs.push((key, value)) and the rest of the loop; value is what
\* read returned
push_pair(buf, key, value, n, hh, acc) ==
    IF value.st # "ok" THEN value
    ELSE read_pairs(buf, value.idx, n - 1, hh, value.calls,
                    Append(acc, <<key, value.val>>))

\* `let value = self.read()?`; key is what read_string returned
read_pair_value(buf, key, n, hh, acc) ==
    IF key.st # "ok" THEN key
    ELSE push_pair(buf, key.val, read(buf, key.idx, hh, key.calls), n, hh, acc)

\* `let key = self.read_string(len)?`; len is what read_string_length returned
read_pair_key(buf, len, n, hh, calls, acc) ==
    IF len.st # "ok" THEN DErr(len.msg, calls)
    ELSE read_pair_value(buf, read_string(buf, len.idx, len.val, calls), n, hh, acc)

\* the loop of read_map
read_pairs(buf, idx, n, hh, calls, acc) ==
    IF n = 0 THEN DOk(acc, idx, calls)
    ELSE read_pair_key(buf, read_string_length(buf, idx), n, hh, calls, acc)

\* items.to_object(py) of the items read
items_to_object(r) ==
    IF r.st # "ok" THEN r ELSE DOk(PyList(r.val), r.idx, r.calls)

read_list(buf, idx, length, hh, calls) ==
    IF length = 0 THEN DOk(PyList(<<>>), idx, calls)
    ELSE items_to_object(read_items(buf, idx, length, hh, calls, <<>>))

\* key_value_pairs.into_py_dict(py) of the pairs read
pairs_into_py_dict(r) ==
    IF r.st # "ok" THEN r
    ELSE DOk(PyDict(into_py_dict(r.val, <<>>)), r.idx, r.calls)

read_map(buf, idx, length, hh, calls) ==
    IF length = 0 THEN DOk(PyDict(<<>>), idx, calls)
    ELSE pairs_into_py_dict(read_pairs(buf, idx, length, hh, calls, <<>>))

\* read_struct calling the hook although reading the fields failed
hydrate_despite_failure(hh, tag, r) ==
    LET res == get_item(hh, ClassKey("Structure"))
    IN  IF r.st # "ok" THEN
            IF hh.present /\ res # {}
            THEN [r EXCEPT !.calls = Append(@, <<CHOOSE g \in res : TRUE,
                                                 Structure(tag, <<>>)>>)]
            ELSE r
        ELSE LET bolt_struct == Structure(tag, r.val)
             IN  IF ~hh.present THEN DOk(bolt_struct, r.idx, r.calls)
                 ELSE IF res = {} THEN DOk(bolt_struct, r.idx, r.calls)
                 ELSE LET f == CHOOSE g \in res : TRUE
                          c == call_hook(f, bolt_struct)
                          calls2 == Append(r.calls, <<f, bolt_struct>>)
                      IN  IF c.st # "ok" THEN DErr(c.msg, calls2)
                          ELSE DOk(c.val, r.idx, calls2)

\* read_struct handing the result of the hook to the hook once more
hydrate_result_again(hh, tag, r) ==
    IF r.st # "ok" THEN r
    ELSE LET bolt_struct == Structure(tag, r.val)
             res == get_item(hh, ClassKey("Structure"))
         IN  IF ~hh.present THEN DOk(bolt_struct, r.idx, r.calls)
             ELSE IF res = {} THEN DOk(bolt_struct, r.idx, r.calls)
             ELSE LET f == CHOOSE g \in res : TRUE
                      c == call_hook(f, bolt_struct)
                  IN  IF c.st # "ok" THEN DErr(c.msg, Append(r.calls, <<f, bolt_struct>>))
                      ELSE DOk(call_hook(f, c.val).val, r.idx,
                               r.calls \o <<<<f, bolt_struct>>, <<f, c.val>>>>)

\* the end of read_struct: the Structure is built from tag and the fields r
\* and handed to the hook registered for its class, if any
hydrate(hh, tag, r) ==
    IF r.st # "ok" THEN r
    ELSE LET bolt_struct == Structure(tag, r.val)
             res == get_item(hh, ClassKey("Structure"))
         IN  IF ~hh.present THEN DOk(bolt_struct, r.idx, r.calls)
             ELSE IF res = {} THEN DOk(bolt_struct, r.idx, r.calls)
             ELSE LET f == CHOOSE g \in res : TRUE
                      c == call_hook(f, bolt_struct)
                      calls2 == Append(r.calls, <<f, bolt_struct>>)
                  IN  IF c.st # "ok" THEN DErr(c.msg, calls2)
                      ELSE DOk(c.val, r.idx, calls2)

\* the fields of read_struct; t is what read_byte returned for the tag
read_fields(buf, t, length, hh, calls) ==
    IF t.st # "ok" THEN DErr(t.msg, calls)
    ELSE hydrate(hh, t.val, read_items(buf, t.idx, length, hh, calls, <<>>))

read_struct(buf, idx, length, hh, calls) ==
    read_fields(buf, read_byte(buf, idx), length, hh, calls)

\* `let len = self.read_uN()?; self.read_X(len)`: len is what read_uN returned
len_read_bytes(buf, len, calls) ==
    IF len.st # "ok" THEN DErr(len.msg, calls)
    ELSE read_bytes(buf, len.idx, len.val, calls)

len_read_string(buf, len, calls) ==
    IF len.st # "ok" THEN DErr(len.msg, calls)
    ELSE read_string(buf, len.idx, len.val, calls)

len_read_list(buf, len, hh, calls) ==
    IF len.st # "ok" THEN DErr(len.msg, calls)
    ELSE read_list(buf, len.idx, len.val, hh, calls)

len_read_map(buf, len, hh, calls) ==
    IF len.st # "ok" THEN DErr(len.msg, calls)
    ELSE read_map(buf, len.idx, len.val, hh, calls)

\* the result of a fixed-width number read as a decoded value
number(d, calls) ==
    IF d.st # "ok" THEN DErr(d.msg, calls) ELSE DOk(PyInt(d.val), d.idx, calls)

\* the result of read_f64 as a decoded value
float(d, calls) ==
    IF d.st # "ok" THEN DErr(d.msg, calls) ELSE DOk(PyFloat(d.val), d.idx, calls)

read_value(buf, idx, marker, hh, calls) ==
    IF as_i8(marker) >= -16 THEN DOk(PyInt(I64(as_i8(marker))), idx, calls)
    ELSE IF marker = NULL THEN DOk(PyNone, idx, calls)
    ELSE IF marker = FLOAT_64 THEN float(read_f64(buf, idx), calls)
    ELSE IF marker = MARKER_FALSE THEN DOk(PyBool(FALSE), idx, calls)
    ELSE IF marker = MARKER_TRUE THEN DOk(PyBool(TRUE), idx, calls)
    ELSE IF marker = INT_8 THEN number(read_i8(buf, idx), calls)
    ELSE IF marker = INT_16 THEN number(read_i16(buf, idx), calls)
    ELSE IF marker = INT_32 THEN number(read_i32(buf, idx), calls)
    ELSE IF marker = INT_64 THEN number(read_i64(buf, idx), calls)
    ELSE IF marker = BYTES_8 THEN len_read_bytes(buf, read_u8(buf, idx), calls)
    ELSE IF marker = BYTES_16 THEN len_read_bytes(buf, read_u16(buf, idx), calls)
    ELSE IF marker = BYTES_32 THEN len_read_bytes(buf, read_u32(buf, idx), calls)
    ELSE IF high_nibble(marker) = TINY_STRING THEN
        read_string(buf, idx, marker % 16, calls)
    ELSE IF marker = STRING_8 THEN len_read_string(buf, read_u8(buf, idx), calls)
    ELSE IF marker = STRING_16 THEN len_read_string(buf, read_u16(buf, idx), calls)
    ELSE IF marker = STRING_32 THEN len_read_string(buf, read_u32(buf, idx), calls)
    ELSE IF high_nibble(marker) = TINY_LIST THEN
        read_list(buf, idx, marker % 16, hh, calls)
    ELSE IF marker = LIST_8 THEN len_read_list(buf, read_u8(buf, idx), hh, calls)
    ELSE IF marker = LIST_16 THEN len_read_list(buf, read_u16(buf, idx), hh, calls)
    ELSE IF marker = LIST_32 THEN len_read_list(buf, read_u32(buf, idx), hh, calls)
    ELSE IF high_nibble(marker) = TINY_MAP THEN
        read_map(buf, idx, marker % 16, hh, calls)
    ELSE IF marker = MAP_8 THEN len_read_map(buf, read_u8(buf, idx), hh, calls)
    ELSE IF marker = MAP_16 THEN len_read_map(buf, read_u16(buf, idx), hh, calls)
    ELSE IF marker = MAP_32 THEN len_read_map(buf, read_u32(buf, idx), hh, calls)
    ELSE IF high_nibble(marker) = TINY_STRUCT THEN
        read_struct(buf, idx, marker % 16, hh, calls)
    ELSE DErr("Unknown PackStream marker", calls)

\* unpack(bytes, idx, hydration_hooks)
unpack(bytes, idx, hydration_hooks) == read(bytes, idx, hydration_hooks, <<>>)

---------------------------------------------------------------------------
(* Inputs of the model *)

\* how many values are packed back to back into one buffer
MaxStream == 2
\* how many threads (or re-entrant frames) call pack
NumCallers == 2
\* how many pack calls each of them makes
MaxCalls == 2

STRUCT_8 == 220
STRUCT_16 == 221

\* n copies of x
Rep(n, x) == [j \in 1..n |-> x]

I64_MAX == <<32767, 65535, 65535, 65535>>
I64_MIN == <<32768, 0, 0, 0>>

\* integers around every threshold of write_int
IntInputs ==
    {I64(n) : n \in {0, 1, 42, 1000, -1, -16, -17, 127, 128, -128, -129,
                     32767, 32768, -32768, -32769, 2147483647,
                     -2147483647 - 1}}
    \cup {<<0, 0, 32768, 0>>, <<65535, 65535, 32767, 65535>>, I64_MAX, I64_MIN}

abc == <<97, 98, 99>>

StrInputs ==
    {<<>>, abc, <<195, 169>>, Rep(15, 97), Rep(16, 98), Rep(255, 99), Rep(256, 100)}

BytesInputs == {<<>>, <<0, 255, 128>>, Rep(16, 193)}

\* a dict of n entries with distinct one-byte keys and null values
WideDict(n) == PyDict([j \in 1..n |-> <<PyStr(<<96 + j>>), PyNone>>])

Point == [k |-> "point", payload |-> <<PyInt(I64(1)), PyInt(I64(2))>>]

\* values with a mapping whose key is not text: at the top, behind entries
\* that were written, inside a list, inside the value of an entry of a
\* field, and behind an entry whose value is of no supported type
BadKeyInputs ==
    {PyDict(<<<<PyInt(I64(1)), PyNone>>>>),
     PyDict(<<<<PyStr(<<97>>), PyInt(I64(1))>>, <<PyBytes(<<7>>), PyNone>>>>),
     PyList(<<PyInt(I64(2)), PyDict(<<<<PyNone, PyStr(abc)>>>>)>>),
     Structure(85, <<PyDict(<<<<PyStr(<<97>>),
                               PyDict(<<<<PyBool(TRUE), PyNone>>>>)>>>>)>>),
     PyDict(<<<<PyStr(<<97>>), Point>>, <<PyInt(I64(1)), PyNone>>>>)}

Scalars ==
    {PyNone, PyBool(TRUE), PyBool(FALSE), PyFloat(<<63, 240, 0, 0, 0, 0, 0, 0>>)}
    \cup {PyInt(i) : i \in IntInputs}
    \cup {PyStr(s) : s \in StrInputs}
    \cup {PyBytes(b) : b \in BytesInputs}

Composites ==
    {PyList(<<>>),
     PyList(<<PyInt(I64(1)), PyInt(I64(2)), PyInt(I64(3))>>),
     PyList(<<PyList(<<PyNone>>), PyStr(abc), PyBytes(<<7>>)>>),
     PyList(Rep(16, PyBool(TRUE))),
     PyDict(<<>>),
     PyDict(<<<<PyStr(<<97>>), PyInt(I64(1))>>>>),
     PyDict(<<<<PyStr(<<97>>), PyList(<<PyInt(I64(1000))>>)>>,
              <<PyStr(Rep(16, 98)), PyDict(<<<<PyStr(abc), PyNone>>>>)>>>>),
     PyDict(<<<<PyStr(Rep(255, 107)), PyBool(FALSE)>>>>),
     PyDict(<<<<PyStr(Rep(256, 97)), PyNone>>>>),
     WideDict(16),
     Structure(78, <<PyStr(<<120>>)>>),
     Structure(78, <<>>),
     Structure(79, <<PyInt(I64(1))>>),
     Structure(80, <<Structure(78, <<PyNone>>), PyList(<<Structure(79, <<>>)>>)>>),
     Structure(81, Rep(15, PyNone)),
     Structure(82, Rep(16, PyNone)),
     Structure(83, Rep(255, PyNone)),
     Structure(84, Rep(256, PyNone)),
     Point}
    \cup BadKeyInputs

\* the values handed to pack
Values == Scalars \cup Composites

\* the values packed behind another one in the same buffer
StreamValues ==
    {PyNone, PyInt(I64(1000)), PyStr(abc),
     PyDict(<<<<PyStr(Rep(256, 97)), PyNone>>>>),
     Structure(78, <<PyStr(<<120>>)>>)}

DehydrationTables ==
    {NoDehydration,
     [present |-> TRUE, table |-> {<<"point", "to_struct">>}],
     [present |-> TRUE, table |-> {<<"point", "to_wrapped">>,
                                   <<"wrapped", "to_struct">>}]}

HydrationTables ==
    {NoHydration,
     [present |-> TRUE, table |-> {}],
     [present |-> TRUE, table |-> {<<ClassKey("Structure"), "hydrate">>}],
     [present |-> TRUE, table |-> {<<ClassKey("Structure"), "hydrate_unless_O">>}],
     [present |-> TRUE, table |-> {<<TagKey(78), "hydrate_N">>,
                                   <<TagKey(79), "hydrate_O">>}]}

\* what follows the byte at the key position in the hand-built maps
KeyRests == {<<>>, <<1, 97, 192>>, <<0, 1, 97, 192>>, <<97, 192>>}

\* hand-built buffers: a one-entry tiny map with every byte at its key position
RawBuffers == {<<TINY_MAP + 1, key>> \o rest : key \in 0..255, rest \in KeyRests}

\* hand-built buffers: a string in each of the four framings
StringBuffers ==
    {<<TINY_STRING + 3>> \o abc,
     <<STRING_8, 3>> \o abc,
     <<STRING_8, 16>> \o Rep(16, 98),
     <<STRING_16, 0, 3>> \o abc,
     <<STRING_16, 1, 0>> \o Rep(256, 100),
     <<STRING_32, 0, 0, 0, 3>> \o abc}

\* what precedes a byte put where a value is expected: nothing (top level),
\* the header of a one-item list, the header and the key of a one-entry map,
\* the header and the tag of a one-field structure
ValuePositions ==
    {<<>>, <<TINY_LIST + 1>>, <<TINY_MAP + 1, TINY_STRING + 1, 97>>,
     <<TINY_STRUCT + 1, 78>>}

\* sizes around every threshold of the header writers, as u64
HeaderSizes ==
    {U64(n) : n \in (0..17) \cup (254..257) \cup (65534..65537)
                    \cup {2147483646, 2147483647}}
    \cup {<<0, 0, 32768, 0>>, <<0, 0, 65535, 65535>>, <<0, 1, 0, 0>>,
          <<32768, 0, 0, 0>>, <<65535, 65535, 65535, 65535>>}

HeaderWriters == {"string", "bytes", "list", "dict"}

write_header(fn, size) ==
    IF fn = "string" THEN write_string_header(<<>>, size)
    ELSE IF fn = "bytes" THEN write_bytes_header(<<>>, size)
    ELSE IF fn = "list" THEN write_list_header(<<>>, size)
    ELSE write_dict_header(<<>>, size)

---------------------------------------------------------------------------
(* The once-cell: TYPE_MAPPINGS and TYPE_MAPPINGS_INIT *)

EmptyCell == [set |-> FALSE, val |-> [st |-> "unset"]]
FullCell(v) == [set |-> TRUE, val |-> v]

\* a cell that takes a table and is left empty by an error
cell_set_forgets_error(c, v) ==
    IF c.set THEN c
    ELSE IF v.st = "ok" THEN FullCell(v)
    ELSE [set |-> FALSE, val |-> v]

\* GILOnceCell::set: only an empty cell takes the value
cell_set(c, v) == IF c.set THEN c ELSE FullCell(v)

\* TYPE_MAPPINGS_INIT.swap(val, SeqCst): what the flag holds afterwards and
\* what the call returns
swap_keeps_flag(flag, val) == [stored |-> flag, returned |-> flag]
swap(flag, val) == [stored |-> val, returned |-> flag]

WhileLoading ==
    [st |-> "err", kind |-> "ImportError",
     msg |-> "Cannot call _rust.pack while loading"]

\* what the import inside init() can do: fail, or bind a set of names
AllNames == {AllMappingNames[j] : j \in 1..Len(AllMappingNames)}
ImportOutcomes ==
    {[ok |-> FALSE, locals |-> {}]}
    \cup {[ok |-> TRUE, locals |-> AllNames]}
    \cup {[ok |-> TRUE, locals |-> AllNames \ {n}] : n \in AllNames}

\* fn init(py): the import, then TypeMappings::new
init(outcome) ==
    IF ~outcome.ok THEN
        [st |-> "err", kind |-> "ImportError", msg |-> "import failed"]
    ELSE TypeMappings_new(outcome.locals)

IdleFrame == [pc |-> "idle", value |-> PyNone, n |-> 0, ret |-> [st |-> "none"]]

\* the values the racing pack calls are made with
OnceValues == {PyNone, PyInt(I64(1000)), Point}

---------------------------------------------------------------------------
(* Structure: src/src/lib.rs *)

\* a == b of two Python objects (PyAny::eq): bool is an int, a Structure
\* compares through Structure::eq, a list item by item, a dict entry by
\* entry whatever the order, anything else by type and value (the floats of
\* the model are not NaN)
RECURSIVE py_eq(_, _)
RECURSIVE eq(_, _)
RECURSIVE eq_zip(_, _, _)

\* the integer a bool or an int stands for
as_int(v) == IF v.k = "bool" THEN (IF v.b THEN I64(1) ELSE I64(0)) ELSE v.i

py_eq(a, b) ==
    IF a.k \in {"bool", "int"} /\ b.k \in {"bool", "int"} THEN as_int(a) = as_int(b)
    ELSE IF a.k # b.k THEN FALSE
    ELSE IF a.k = "struct" THEN eq(a, b)
    ELSE IF a.k = "list" THEN
        /\ Len(a.items) = Len(b.items)
        /\ \A j \in 1..Len(a.items) : py_eq(a.items[j], b.items[j])
    ELSE IF a.k = "dict" THEN
        /\ Len(a.entries) = Len(b.entries)
        /\ \A i \in 1..Len(a.entries) : \E j \in 1..Len(b.entries) :
              /\ a.entries[i][1] = b.entries[j][1]
              /\ py_eq(a.entries[i][2], b.entries[j][2])
    ELSE a = b

\* the loop of Structure::eq over self.fields zipped with other.fields,
\* from the j-th pair on
eq_zip(fa, fb, j) ==
    IF j > Len(fa) \/ j > Len(fb) THEN TRUE
    ELSE IF ~py_eq(fa[j], fb[j]) THEN FALSE
    ELSE eq_zip(fa, fb, j + 1)

eq_without_len(self, other) ==
    IF self.tag # other.tag THEN FALSE
    ELSE eq_zip(self.fields, other.fields, 1)

\* Structure::eq
eq(self, other) ==
    IF self.tag # other.tag \/ Len(self.fields) # Len(other.fields) THEN FALSE
    ELSE eq_zip(self.fields, other.fields, 1)

CompareOps == {"Eq", "Ne", "Lt"}

\* Structure::__richcmp__
richcmp(self, other, op) ==
    IF op = "Eq" THEN [st |-> "ok", val |-> eq(self, other)]
    ELSE IF op = "Ne" THEN [st |-> "ok", val |-> ~eq(self, other)]
    ELSE [st |-> "NotImplemented"]

\* hash(v) of a field (PyAny::hash): an int hashes to itself (-1 to -2), a
\* bool to 0 or 1, a Structure through Structure::__hash__; the fields that
\* are hashed in the model are small ints, bools and Structures
RECURSIVE py_hash(_)
RECURSIVE hash_fields(_, _, _)

\* the integer of an i64 that fits in 31 bits
small_int(i) == IF i[1] = 0 THEN i[3] * 65536 + i[4]
                ELSE (i[3] - 65536) * 65536 + i[4]

\* the loop `fields_hash += field.hash()?` from the j-th field on; no sum of
\* the model leaves the isize range
hash_fields(fields, j, fields_hash) ==
    IF j > Len(fields) THEN fields_hash
    ELSE hash_fields(fields, j + 1, fields_hash + py_hash(fields[j]))

\* Structure::__hash__
hash(self) == hash_fields(self.fields, 1, 0) + self.tag

py_hash(v) ==
    IF v.k = "bool" THEN (IF v.b THEN 1 ELSE 0)
    ELSE IF v.k = "int" THEN (IF v.i = I64(-1) THEN -2 ELSE small_int(v.i))
    ELSE hash(v)

\* how many of the last hashed Structures are kept
MaxHashed == 2

NoCompare == [a |-> PyNone, b |-> PyNone, op |-> "none", ret |-> [st |-> "none"]]

\* the Structures that are compared and hashed
StructInputs ==
    {Structure(1, <<>>),
     Structure(2, <<>>),
     Structure(1, <<PyInt(I64(1))>>),
     Structure(1, <<PyBool(TRUE)>>),
     Structure(1, <<PyInt(I64(1)), PyInt(I64(2))>>),
     Structure(1, <<PyInt(I64(2)), PyInt(I64(1))>>),
     Structure(2, <<PyInt(I64(1)), PyInt(I64(2))>>),
     Structure(1, <<PyInt(I64(1)), PyInt(I64(2)), PyInt(I64(3))>>),
     Structure(1, <<PyInt(I64(1)), PyInt(I64(3))>>),
     Structure(1, <<Structure(3, <<PyInt(I64(1)), PyInt(I64(2))>>)>>),
     Structure(1, <<Structure(3, <<PyInt(I64(2)), PyInt(I64(1))>>)>>),
     Structure(1, <<Structure(3, <<PyInt(I64(1))>>), PyInt(I64(7))>>),
     Structure(1, <<PyInt(I64(7)), Structure(3, <<PyInt(I64(1))>>)>>)}

StructInit ==
    /\ compared = NoCompare
    /\ hashed = <<>>

---------------------------------------------------------------------------
(* State machine *)

NoPack == [value |-> PyNone, dh |-> NoDehydration, ret |-> [st |-> "none"]]
NoHeader == [fn |-> "none", size |-> U64(0), out |-> [st |-> "none"]]

\* the codec part starts with no call made
CodecInit ==
    /\ stream = <<>>
    /\ packed = NoPack
    /\ buffer = <<>>
    /\ origin = "new"
    /\ hooks = NoHydration
    /\ index = 0
    /\ decoded = <<>>
    /\ header = NoHeader

\* the process after a first pack call has loaded the classifier table
Init ==
    /\ CodecInit
    /\ cell = FullCell(init([ok |-> TRUE, locals |-> AllNames]))
    /\ initFlag = TRUE
    /\ frames = [c \in 1..NumCallers |-> IdleFrame]
    /\ initRuns = 1
    /\ StructInit

\* the process right after the module is loaded
\* a number that converts to a float and to an integer alike
Number == [k |-> "number", f |-> <<64, 8, 0, 0, 0, 0, 0, 0>>, i |-> I64(3)]

\* contents of the types module: the one of Init, one whose type tables
\* overlap, one whose value sets overlap with each other and with the types
DispatchTables ==
    LET tm == init([ok |-> TRUE, locals |-> AllNames]).tm
    IN  {tm,
         [tm EXCEPT !.float_types = {"float", "number"},
                    !.int_types = {"int", "number"},
                    !.bytes_types = {"bytes", "bytearray", "str"},
                    !.sequence_types = {"list", "tuple", "bytes"},
                    !.mapping_types = {"dict", "list"}],
         [tm EXCEPT !.none_values = {PyNone, PyBool(FALSE)},
                    !.true_values = {PyBool(TRUE), PyFloat(<<63, 240, 0, 0, 0, 0, 0, 0>>),
                                     PyInt(I64(0))},
                    !.false_values = {PyBool(FALSE), PyInt(I64(0)), PyStr(abc)}]}

DispatchHooks ==
    {NoDehydration,
     [present |-> TRUE, table |-> {<<"point", "to_struct">>}],
     [present |-> TRUE, table |-> {<<"point", "to_list">>, <<"struct", "to_list">>,
                                   <<"int", "to_struct">>, <<"none", "raise">>}]}

DispatchInputs ==
    {PyNone, PyBool(TRUE), PyBool(FALSE), Number, Point, [k |-> "object"],
     PyFloat(<<63, 240, 0, 0, 0, 0, 0, 0>>), PyFloat(<<64, 0, 0, 0, 0, 0, 0, 0>>),
     PyInt(I64(0)), PyInt(I64(1)), PyInt(I64(1000)),
     PyStr(abc), PyStr(<<>>), PyBytes(<<7>>),
     PyList(<<PyInt(I64(0))>>), PyList(<<>>),
     PyDict(<<<<PyStr(abc), PyBool(FALSE)>>>>),
     Structure(78, <<PyStr(abc)>>)}

\* the statics after the first get_type_mappings, for each types module
InitDispatch ==
    /\ CodecInit
    /\ \E tm \in DispatchTables : cell = FullCell([st |-> "ok", tm |-> tm])
    /\ initFlag = TRUE
    /\ frames = [c \in 1..NumCallers |-> IdleFrame]
    /\ initRuns = 1
    /\ StructInit

InitOnce ==
    /\ CodecInit
    /\ cell = EmptyCell
    /\ initFlag = FALSE
    /\ frames = [c \in 1..NumCallers |-> IdleFrame]
    /\ initRuns = 0
    /\ StructInit

\* pack(value, dehydration_hooks) with the table loaded; the caller appends
\* the bytes to the buffer it is filling
Pack(value, dh) ==
    /\ cell.set
    /\ origin \in {"new", "pack"}
    /\ decoded = <<>>
    /\ Len(stream) < MaxStream
    /\ packed' = [value |-> value, dh |-> dh, ret |-> pack_with(cell.val, value, dh)]
    /\ IF packed'.ret.st = "ok"
       THEN /\ stream' = Append(stream, [value |-> value, dh |-> dh,
                                         bytes |-> packed'.ret.bytes])
            /\ buffer' = buffer \o packed'.ret.bytes
            /\ origin' = "pack"
       ELSE UNCHANGED <<stream, buffer, origin>>
    /\ UNCHANGED <<hooks, index, decoded, header>>
    /\ UNCHANGED onceVars
    /\ UNCHANGED structVars

\* the buffer is cut to a strict prefix of one encoding
Truncate(n) ==
    /\ origin = "pack"
    /\ Len(stream) = 1
    /\ decoded = <<>>
    /\ n < Len(buffer)
    /\ buffer' = SubSeq(buffer, 1, n)
    /\ origin' = "prefix"
    /\ UNCHANGED <<stream, packed, hooks, index, decoded, header>>
    /\ UNCHANGED onceVars
    /\ UNCHANGED structVars

\* the packed values are framed as the fields of a wide structure
FrameWide(marker, tag) ==
    /\ origin = "pack"
    /\ decoded = <<>>
    /\ buffer' = (IF marker = STRUCT_8 THEN <<STRUCT_8, Len(stream), tag>>
                  ELSE <<STRUCT_16, 0, Len(stream), tag>>) \o buffer
    /\ origin' = "wide"
    /\ UNCHANGED <<stream, packed, hooks, index, decoded, header>>
    /\ UNCHANGED onceVars
    /\ UNCHANGED structVars

\* a hand-built buffer
LoadRaw(b) ==
    /\ origin = "new"
    /\ packed = NoPack
    /\ buffer' = b
    /\ origin' = "raw"
    /\ UNCHANGED <<stream, packed, hooks, index, decoded, header>>
    /\ UNCHANGED onceVars
    /\ UNCHANGED structVars

\* a hand-built buffer that ends with the byte b where a value is expected
LoadMarker(position, b) ==
    /\ origin = "new"
    /\ packed = NoPack
    /\ buffer' = position \o <<b>>
    /\ origin' = "marker"
    /\ UNCHANGED <<stream, packed, hooks, index, decoded, header>>
    /\ UNCHANGED onceVars
    /\ UNCHANGED structVars

\* unpack(buffer, index, hydration_hooks); the caller continues at the
\* returned offset while bytes are left, for at most one call more than the
\* number of values a buffer holds
Unpack(hh) ==
    /\ origin # "new"
    /\ Len(decoded) <= MaxStream
    /\ \/ decoded = <<>>
       \/ /\ decoded # <<>>
          /\ decoded[Len(decoded)].st = "ok"
          /\ index < Len(buffer)
          /\ hh = hooks
    /\ decoded' = Append(decoded, unpack(buffer, index, hh))
    /\ index' = IF decoded'[Len(decoded')].st = "ok"
                THEN decoded'[Len(decoded')].idx ELSE index
    /\ hooks' = hh
    /\ UNCHANGED <<stream, packed, buffer, origin, header>>
    /\ UNCHANGED onceVars
    /\ UNCHANGED structVars

\* one of the four header writers on an empty encoder buffer
WriteHeader(fn, size) ==
    /\ header' = [fn |-> fn, size |-> size, out |-> write_header(fn, size)]
    /\ UNCHANGED <<stream, packed, buffer, origin, hooks, index, decoded>>
    /\ UNCHANGED onceVars
    /\ UNCHANGED structVars

\* a pack call enters get_type_mappings: it returns at once unless it is the
\* one that starts init()
PackCall(c, value) ==
    /\ frames[c].pc = "idle"
    /\ frames[c].n < MaxCalls
    /\ IF cell.set THEN
           /\ frames' = [frames EXCEPT ![c] =
                  [pc |-> "idle", value |-> value, n |-> @.n + 1,
                   ret |-> pack_with(cell.val, value, NoDehydration)]]
           /\ UNCHANGED <<cell, initFlag, initRuns>>
       ELSE IF swap(initFlag, TRUE).returned THEN
           /\ initFlag' = swap(initFlag, TRUE).stored
           /\ frames' = [frames EXCEPT ![c] =
                  [pc |-> "idle", value |-> value, n |-> @.n + 1,
                   ret |-> WhileLoading]]
           /\ UNCHANGED <<cell, initRuns>>
       ELSE
           /\ initFlag' = swap(initFlag, TRUE).stored
           /\ initRuns' = initRuns + 1
           /\ frames' = [frames EXCEPT ![c] =
                  [pc |-> "init", value |-> value, n |-> @.n + 1,
                   ret |-> [st |-> "none"]]]
           /\ UNCHANGED cell
    /\ UNCHANGED codecVars
    /\ UNCHANGED structVars

\* init() returns in the call that started it: the result is stored in the
\* cell and the call goes on with what the cell holds
InitReturn(c, outcome) ==
    /\ frames[c].pc = "init"
    /\ cell' = cell_set(cell, init(outcome))
    /\ frames' = [frames EXCEPT ![c] =
           [pc |-> "idle", value |-> @.value, n |-> @.n,
            ret |-> pack_with(cell'.val, @.value, NoDehydration)]]
    /\ UNCHANGED <<initFlag, initRuns>>
    /\ UNCHANGED codecVars
    /\ UNCHANGED structVars

Next ==
    \/ \E value \in Values, dh \in DehydrationTables :
          /\ (stream # <<>> => value \in StreamValues /\ dh = NoDehydration)
          /\ Pack(value, dh)
    \/ \E n \in 0..300 : Truncate(n)
    \/ \E marker \in {STRUCT_8, STRUCT_16} : FrameWide(marker, 78)
    \/ \E b \in RawBuffers \cup StringBuffers : LoadRaw(b)
    \/ \E position \in ValuePositions, b \in 0..255 : LoadMarker(position, b)
    \/ \E hh \in HydrationTables : Unpack(hh)

Spec == Init /\ [][Next]_vars

\* pack(value, dehydration_hooks) with the stored table, once
PackConfigured(value, dh) ==
    /\ cell.set
    /\ packed = NoPack
    /\ packed' = [value |-> value, dh |-> dh, ret |-> pack_with(cell.val, value, dh)]
    /\ UNCHANGED <<stream, buffer, origin, hooks, index, decoded, header>>
    /\ UNCHANGED onceVars
    /\ UNCHANGED structVars

NextDispatch ==
    \E value \in DispatchInputs, dh \in DispatchHooks : PackConfigured(value, dh)

SpecDispatch == InitDispatch /\ [][NextDispatch]_vars

NextHeader == \E fn \in HeaderWriters, size \in HeaderSizes : WriteHeader(fn, size)

SpecHeader == Init /\ [][NextHeader]_vars

\* a == b, a != b or a < b of two Structures
RichCmp(a, b, op) ==
    /\ compared' = [a |-> a, b |-> b, op |-> op, ret |-> richcmp(a, b, op)]
    /\ UNCHANGED hashed
    /\ UNCHANGED codecVars
    /\ UNCHANGED onceVars

NextStruct ==
    \/ \E a \in StructInputs, b \in StructInputs, op \in CompareOps : RichCmp(a, b, op)

SpecStruct == Init /\ [][NextStruct]_vars

\* hash(a) of a Structure
Hash(a) ==
    /\ hashed' = (IF Len(hashed) < MaxHashed THEN hashed ELSE Tail(hashed))
                  \o <<[value |-> a, ret |-> hash(a)]>>
    /\ UNCHANGED compared
    /\ UNCHANGED codecVars
    /\ UNCHANGED onceVars

NextHash == \E a \in StructInputs : Hash(a)

SpecHash == Init /\ [][NextHash]_vars

NextOnce ==
    \/ \E c \in 1..NumCallers, value \in OnceValues : PackCall(c, value)
    \/ \E c \in 1..NumCallers, outcome \in ImportOutcomes : InitReturn(c, outcome)

SpecOnce == InitOnce /\ [][NextOnce]_vars

---------------------------------------------------------------------------
(* Properties *)

\* C1: round trip without hooks: for every value pack accepts, unpack of
\* its encoding at offset 0 returns the value itself and the length of the
\* encoding.
C1_RoundTrip ==
    (/\ origin = "pack"
     /\ Len(stream) = 1
     /\ stream[1].dh = NoDehydration
     /\ hooks = NoHydration
     /\ decoded # <<>>)
    => decoded[1] = DOk(stream[1].value, Len(stream[1].bytes), <<>>)

\* C2: truncation safety: unpack of a strict prefix of a valid encoding
\* returns a decode error; it neither panics nor returns a value.
C2_TruncationSafety ==
    (origin = "prefix" /\ decoded # <<>>) => decoded[1].st = "err"

\* C3: a byte at a map-key position that is not a string marker (0x80-0x8F,
\* 0xD0, 0xD1, 0xD2) makes unpack fail with a decode error.
C3_MapKeyMarkers ==
    (/\ origin = "raw"
     /\ decoded # <<>>
     /\ buffer[1] = 161
     /\ buffer[2] \notin (128..143) \cup {208, 209, 210})
    => decoded[1].st = "err"

\* C4: a buffer made of 0xDC, an 8-bit field count n, a tag and n encoded
\* values (or 0xDD with a 16-bit count) decodes to Structure(tag, fields)
\* and unpack consumes exactly those bytes.
C4_WideStructures ==
    (/\ origin = "wide"
     /\ hooks = NoHydration
     /\ decoded # <<>>
     /\ \A j \in 1..Len(stream) : stream[j].value \in Scalars)
    => decoded[1] = DOk(Structure(78, [j \in 1..Len(stream) |-> stream[j].value]),
                        Len(buffer), <<>>)

\* C5: with a hydration table, a decoded Structure with tag t is replaced by
\* the result of the transform registered under t, and is returned as the
\* raw Structure when nothing is registered under t.
C5_HydrationByTag ==
    (/\ origin = "pack"
     /\ Len(stream) = 1
     /\ stream[1].dh = NoDehydration
     /\ stream[1].value.k = "struct"
     /\ \A j \in 1..Len(stream[1].value.fields) :
            stream[1].value.fields[j] \in Scalars
     /\ hooks.present
     /\ decoded # <<>>)
    => LET raw == stream[1].value
           registered == get_item(hooks, TagKey(raw.tag))
       IN  /\ decoded[1].st = "ok"
           /\ decoded[1].val =
                 IF registered = {} THEN raw
                 ELSE [k |-> "app", by |-> CHOOSE f \in registered : TRUE,
                       arg |-> raw]

\* C6: the body of the initializer runs at most once, and a pack call that
\* arrives while the initializer is running fails with the explicit
\* "while loading" error, without running the initializer and without
\* writing the table.
C6_InitializeOnce ==
    [][/\ initRuns' <= 1
       /\ \A c \in 1..NumCallers :
            (/\ frames'[c].n = frames[c].n + 1
             /\ \E d \in 1..NumCallers : frames[d].pc = "init")
            => /\ frames'[c].ret = WhileLoading
               /\ frames'[c].pc = "idle"
               /\ cell' = cell
               /\ initRuns' = initRuns]_vars

\* a call was rejected while another one is still inside the initializer
C6_Witness ==
    \E c, d \in 1..NumCallers :
        /\ frames[c].pc = "init"
        /\ frames[d].ret = WhileLoading
        /\ initRuns = 1

\* C7: every header writer uses the smallest size class that fits n: the
\* tiny marker + n up to 15 (strings, lists, maps), the 8-bit marker and one
\* length byte up to 255, the 16-bit marker and two big-endian bytes up to
\* 65535, the 32-bit marker and four big-endian bytes up to 2^31-1, and an
\* overflow error without any header byte beyond that.
C7_MinimalSizeClass ==
    header.fn # "none" =>
        LET n == header.size
            low == n[4]
            markers == IF header.fn = "string" THEN <<128, 208, 209, 210>>
                       ELSE IF header.fn = "list" THEN <<144, 212, 213, 214>>
                       ELSE IF header.fn = "dict" THEN <<160, 216, 217, 218>>
                       ELSE <<0, 204, 205, 206>>
            below_2_16 == n[1] = 0 /\ n[2] = 0 /\ n[3] = 0
            below_2_31 == n[1] = 0 /\ n[2] = 0 /\ n[3] < 32768
        IN  IF below_2_16 /\ low <= 15 /\ header.fn # "bytes" THEN
                header.out = Ok(<<markers[1] + low>>)
            ELSE IF below_2_16 /\ low <= 255 THEN
                header.out = Ok(<<markers[2], low>>)
            ELSE IF below_2_16 THEN
                header.out = Ok(<<markers[3], low \div 256, low % 256>>)
            ELSE IF below_2_31 THEN
                header.out = Ok(<<markers[4], n[3] \div 256, n[3] % 256,
                                  low \div 256, low % 256>>)
            ELSE /\ header.out.st = "err"
                 /\ header.out.kind = "OverflowError"
                 /\ header.out.buffer = <<>>

\* a length of 2^31 was refused
C7_Witness ==
    /\ header.fn = "string"
    /\ header.size = <<0, 0, 32768, 0>>
    /\ header.out.st = "err"

\* C8: pack writes an integer i as the single byte i when -16 <= i <= 127,
\* as 0xC8 and one byte when -128 <= i <= -17, as 0xC9 and two big-endian
\* bytes when i fits in 16 bits, as 0xCA and four bytes when it fits in 32
\* bits, and as 0xCB and eight bytes otherwise; 1000 is C9 03 E8.
C8_MinimalInteger ==
    (packed.ret.st # "none" /\ packed.value.k = "int") =>
        LET i == packed.value.i
            positive(limbs) == \A j \in 1..limbs : i[j] = 0
            negative(limbs) == \A j \in 1..limbs : i[j] = 65535
            b(w) == <<w \div 256, w % 256>>
            expected ==
                IF \/ positive(3) /\ i[4] <= 127
                   \/ negative(3) /\ i[4] >= 65536 - 16
                THEN <<i[4] % 256>>
                ELSE IF negative(3) /\ i[4] >= 65536 - 128
                THEN <<200, i[4] % 256>>
                ELSE IF \/ positive(3) /\ i[4] < 32768
                        \/ negative(3) /\ i[4] >= 32768
                THEN <<201>> \o b(i[4])
                ELSE IF \/ positive(2) /\ i[3] < 32768
                        \/ negative(2) /\ i[3] >= 32768
                THEN <<202>> \o b(i[3]) \o b(i[4])
                ELSE <<203>> \o b(i[1]) \o b(i[2]) \o b(i[3]) \o b(i[4])
        IN  /\ packed.ret = [st |-> "ok", bytes |-> expected]
            /\ i = I64(1000) => packed.ret.bytes = <<201, 3, 232>>
            /\ i = I64(-17) => packed.ret.bytes = <<200, 239>>
            /\ i = I64(128) => packed.ret.bytes = <<201, 0, 128>>
            /\ i = I64(32768) => packed.ret.bytes = <<202, 0, 0, 128, 0>>
            /\ i = I64(-32769) => packed.ret.bytes = <<202, 255, 255, 127, 255>>
            /\ i = <<0, 0, 32768, 0>>
                 => packed.ret.bytes = <<203, 0, 0, 0, 0, 128, 0, 0, 0>>
            /\ i = <<65535, 65535, 32767, 65535>>
                 => packed.ret.bytes = <<203, 255, 255, 255, 255, 127, 255, 255, 255>>

\* 128, the first integer that needs two payload bytes, was packed
C8_Witness ==
    /\ packed.value = PyInt(I64(128))
    /\ packed.ret.st = "ok"

\* C9: every unpack call of a run over the concatenation of pack(v1),
\* pack(v2), ..., each started at the offset the previous one returned,
\* succeeds, yields the next value and returns the offset at which that
\* value's encoding ends; the run ends at the buffer length.
C9_DecodeCursor ==
    (/\ origin = "pack"
     /\ hooks = NoHydration
     /\ \A j \in 1..Len(stream) : stream[j].dh = NoDehydration)
    => LET end[j \in 0..Len(stream)] ==
               IF j = 0 THEN 0 ELSE end[j - 1] + Len(stream[j].bytes)
       IN  /\ Len(decoded) <= Len(stream)
           /\ \A j \in 1..Len(decoded) :
                /\ decoded[j].st = "ok"
                /\ decoded[j].val = stream[j].value
                /\ decoded[j].idx = end[j]
                /\ decoded[j].idx >= end[j - 1] + 1
                /\ decoded[j].idx <= Len(buffer)

\* C10: pack of a Structure with n fields returns (0xB0 + n, tag) followed
\* by the encodings of the fields in order when n <= 15, and fails with an
\* overflow error, returning no bytes, when n >= 16.
C10_StructureFieldLimit ==
    (packed.ret.st # "none" /\ packed.value.k = "struct") =>
        LET fields == packed.value.fields
            n == Len(fields)
            enc(j) == pack_with(cell.val, fields[j], packed.dh)
            cat[j \in 0..n] == IF j = 0 THEN <<>> ELSE cat[j - 1] \o enc(j).bytes
        IN  IF n <= 15 THEN
                (\A j \in 1..n : enc(j).st = "ok")
                => packed.ret = [st |-> "ok",
                                 bytes |-> <<176 + n, packed.value.tag>> \o cat[n]]
            ELSE /\ packed.ret.st = "err"
                 /\ packed.ret.kind = "OverflowError"
                 /\ DOMAIN packed.ret = {"st", "kind", "msg"}

\* a Structure of 256 fields was refused
C10_Witness ==
    /\ packed.value.k = "struct"
    /\ Len(packed.value.fields) = 256
    /\ packed.ret.st = "err"


\* some mapping inside v, at any nesting depth, has a key that is not text
RECURSIVE HasNonTextKey(_)
HasNonTextKey(v) ==
    IF v.k = "list" THEN \E j \in 1..Len(v.items) : HasNonTextKey(v.items[j])
    ELSE IF v.k = "struct" THEN
        \E j \in 1..Len(v.fields) : HasNonTextKey(v.fields[j])
    ELSE IF v.k = "dict" THEN
        \E j \in 1..Len(v.entries) :
            v.entries[j][1].k # "str" \/ HasNonTextKey(v.entries[j][2])
    ELSE FALSE

\* v with every key that is not text replaced by a text key
RECURSIVE WithTextKeys(_)
WithTextKeys(v) ==
    IF v.k = "list" THEN
        PyList([j \in 1..Len(v.items) |-> WithTextKeys(v.items[j])])
    ELSE IF v.k = "struct" THEN
        Structure(v.tag, [j \in 1..Len(v.fields) |-> WithTextKeys(v.fields[j])])
    ELSE IF v.k = "dict" THEN
        PyDict([j \in 1..Len(v.entries) |->
                   <<IF v.entries[j][1].k = "str" THEN v.entries[j][1]
                     ELSE PyStr(<<107>>),
                     WithTextKeys(v.entries[j][2])>>])
    ELSE v

\* the kind of the key that is not text and comes first in encoding order
RECURSIVE FirstNonTextKey(_)
FirstNonTextKey(v) ==
    LET first(S) == CHOOSE j \in S : \A i \in S : j <= i
    IN  IF v.k = "list" THEN
            FirstNonTextKey(v.items[first({j \in 1..Len(v.items) :
                                              HasNonTextKey(v.items[j])})])
        ELSE IF v.k = "struct" THEN
            FirstNonTextKey(v.fields[first({j \in 1..Len(v.fields) :
                                               HasNonTextKey(v.fields[j])})])
        ELSE LET e == v.entries[first({j \in 1..Len(v.entries) :
                                          \/ v.entries[j][1].k # "str"
                                          \/ HasNonTextKey(v.entries[j][2])})]
             IN  IF e[1].k # "str" THEN e[1].k ELSE FirstNonTextKey(e[2])

ReservedMarkers ==
    (196..199) \cup {207, 211, 215, 219, 222, 223} \cup (224..239)

\* C12: at the top level, as a list element, as a map value and as a
\* structure field, each reserved byte makes unpack return the
\* unknown-marker error: no panic, and no value.
C12_UnknownMarker ==
    (/\ origin = "marker"
     /\ decoded # <<>>
     /\ buffer[Len(buffer)] \in ReservedMarkers)
    => /\ decoded[1].st = "err"
       /\ decoded[1].msg = "Unknown PackStream marker"
       /\ "val" \notin DOMAIN decoded[1]

\* the reserved byte 0xC4 was refused as the field of a structure
C12_Witness ==
    /\ origin = "marker"
    /\ buffer = <<TINY_STRUCT + 1, 78, 196>>
    /\ decoded # <<>>
    /\ decoded[1].st = "err"


\* C13: a == b of two Structures holds exactly when their tags are equal,
\* they have as many fields and their fields are equal pairwise in order;
\* a != b is the negation.
C13_StructureEquality ==
    compared.op \in {"Eq", "Ne"} =>
        LET a == compared.a
            b == compared.b
            same == /\ a.tag = b.tag
                    /\ Len(a.fields) = Len(b.fields)
                    /\ \A j \in 1..Len(a.fields) : py_eq(a.fields[j], b.fields[j])
        IN  /\ compared.op = "Eq" => compared.ret = [st |-> "ok", val |-> same]
            /\ compared.op = "Ne" => compared.ret = [st |-> "ok", val |-> ~same]

\* a Structure was compared with one that has the same tag and the same
\* first field, and one field more
C13_Witness ==
    /\ compared.op = "Ne"
    /\ compared.a = Structure(1, <<PyInt(I64(1))>>)
    /\ compared.b = Structure(1, <<PyInt(I64(1)), PyInt(I64(2))>>)
    /\ compared.ret = [st |-> "ok", val |-> TRUE]


\* fb holds the items of fa in another order
Rearranged(fa, fb) ==
    /\ Len(fa) = Len(fb)
    /\ fa # fb
    /\ \E p \in [1..Len(fa) -> 1..Len(fa)] :
          /\ \A i, j \in 1..Len(fa) : i # j => p[i] # p[j]
          /\ fb = [j \in 1..Len(fa) |-> fa[p[j]]]

\* C14: the hash of a Structure is order-sensitive in its fields: two
\* Structures with the same tag whose fields are the same values, with
\* pairwise distinct hashes, in another order are not bound to one hash
\* value (for two fields: the two arrangements get different hashes).
C14_OrderSensitiveHash ==
    \A i, j \in 1..Len(hashed) :
        LET a == hashed[i].value
            b == hashed[j].value
        IN  (/\ a.tag = b.tag
             /\ Len(a.fields) = 2
             /\ Rearranged(a.fields, b.fields)
             /\ py_hash(a.fields[1]) # py_hash(a.fields[2]))
            => hashed[i].ret # hashed[j].ret


\* C15: for a string in each of the four framings, read_string_length at a
\* key position reads as many length bytes and returns the same length as
\* read_value does for the same bytes at a value position.
C15_KeyLengthAgreement ==
    (/\ origin = "raw"
     /\ buffer \in StringBuffers
     /\ decoded # <<>>
     /\ decoded[1].st = "ok")
    => LET len == read_string_length(buffer, 0)
           s == decoded[1].val.s
       IN  /\ len.st = "ok"
           /\ len.val = Len(s)
           /\ len.idx = decoded[1].idx - Len(s)


\* C16: when the packed value matches no native shape and the dehydration
\* table yields a transform for it, the transform is applied once and pack
\* returns what encoding the replacement without the table returns.
C16_SingleTransformation ==
    (/\ packed.ret.st # "none"
     /\ packed.value.k = "point"
     /\ packed.dh.present
     /\ get_transformer(packed.dh, packed.value) # {})
    => LET f == CHOOSE g \in get_transformer(packed.dh, packed.value) : TRUE
           t == call_transformer(f, packed.value)
       IN  t.st = "ok" => packed.ret = pack_with(cell.val, t.val, NoDehydration)


\* the value v with every Structure in it, innermost first, replaced by the
\* return value of one call of the transform f on it
RECURSIVE Hydrated(_, _)
Hydrated(v, f) ==
    IF v.k = "struct" THEN
        call_hook(f, Structure(v.tag, [j \in 1..Len(v.fields) |->
                                         Hydrated(v.fields[j], f)])).val
    ELSE IF v.k = "list" THEN
        PyList([j \in 1..Len(v.items) |-> Hydrated(v.items[j], f)])
    ELSE IF v.k = "dict" THEN
        PyDict([j \in 1..Len(v.entries) |->
                  <<v.entries[j][1], Hydrated(v.entries[j][2], f)>>])
    ELSE v

\* the number of Structures in the value v
RECURSIVE CountStructs(_)
RECURSIVE SumStructs(_, _)
SumStructs(vs, j) ==
    IF j > Len(vs) THEN 0 ELSE CountStructs(vs[j]) + SumStructs(vs, j + 1)

CountStructs(v) ==
    IF v.k = "struct" THEN 1 + SumStructs(v.fields, 1)
    ELSE IF v.k = "list" THEN SumStructs(v.items, 1)
    ELSE IF v.k = "dict" THEN
        SumStructs([j \in 1..Len(v.entries) |-> v.entries[j][2]], 1)
    ELSE 0

\* C17: an unpack call that succeeds with a table whose lookup finds a
\* transform calls it once per decoded structure, each time with the raw
\* Structure, and the result holds the return values as they are: it is the
\* value decoded without hooks with each Structure replaced by one call's
\* return value.
C17_HydrateOnce ==
    \A j \in 1..Len(decoded) :
        (/\ decoded[j].st = "ok"
         /\ hooks.present
         /\ get_item(hooks, ClassKey("Structure")) # {})
        => LET start == IF j = 1 THEN 0 ELSE decoded[j - 1].idx
               raw == unpack(buffer, start, NoHydration)
               f == CHOOSE g \in get_item(hooks, ClassKey("Structure")) : TRUE
               calls == decoded[j].calls
           IN  /\ raw.st = "ok"
               /\ decoded[j].val = Hydrated(raw.val, f)
               /\ Len(calls) = CountStructs(raw.val)
               /\ \A c \in 1..Len(calls) :
                      calls[c][1] = f /\ calls[c][2].k = "struct"

\* C17 witness: an unpack call hydrated a structure nested in a structure
C17_Witness ==
    /\ decoded # <<>>
    /\ decoded[1].st = "ok"
    /\ Len(decoded[1].calls) >= 2
    /\ decoded[1].val.k = "app"
    /\ \E j \in 1..Len(decoded[1].val.arg.fields) :
           decoded[1].val.arg.fields[j].k = "app"


\* the steps of the dispatch order, 1 to 11, that the value v satisfies
DispatchSteps(v, dh, tm) ==
    {n \in 1..11 :
        \/ n = 1 /\ v \in tm.none_values
        \/ n = 2 /\ v \in tm.true_values \cup tm.false_values
        \/ n = 3 /\ Mro(v.k) \cap tm.float_types # {}
        \/ n = 4 /\ Mro(v.k) \cap tm.int_types # {}
        \/ n = 5 /\ v.k = "str"
        \/ n = 6 /\ Mro(v.k) \cap tm.bytes_types # {}
        \/ n = 7 /\ Mro(v.k) \cap tm.sequence_types # {}
        \/ n = 8 /\ Mro(v.k) \cap tm.mapping_types # {}
        \/ n = 9 /\ v.k = "struct"
        \/ n = 10 /\ dh.present /\ \E e \in dh.table : e[1] = v.k
        \/ n = 11}

\* the first bytes that the step n emits
StepMarkers(n) ==
    CASE n = 1 -> {NULL}
      [] n = 2 -> {MARKER_TRUE, MARKER_FALSE}
      [] n = 3 -> {FLOAT_64}
      [] n = 4 -> (0..127) \cup (240..255) \cup (INT_8..INT_64)
      [] n = 5 -> (TINY_STRING..(TINY_STRING + 15)) \cup (STRING_8..STRING_32)
      [] n = 6 -> BYTES_8..BYTES_32
      [] n = 7 -> (TINY_LIST..(TINY_LIST + 15)) \cup (LIST_8..LIST_32)
      [] n = 8 -> (TINY_MAP..(TINY_MAP + 15)) \cup (MAP_8..MAP_32)
      [] n = 9 -> TINY_STRUCT..(TINY_STRUCT + 15)

\* C18: a pack call dispatches on the earliest step of the order null
\* identity, true/false identity, float, integer, text, bytes, sequence,
\* mapping, Structure, dehydration hook, error that the value satisfies: the
\* first byte written is a marker of that step (a true-equivalent gives
\* 0xC3 alone and a false-equivalent that is no true-equivalent 0xC2
\* alone), a value that only a hook matches is written as the replacement
\* is, and a value that satisfies no step gives the unsupported-kind error.
C18_FirstMatchWins ==
    (packed.ret.st # "none" /\ cell.set /\ cell.val.st = "ok")
    => LET v == packed.value
           dh == packed.dh
           tm == cell.val.tm
           S == DispatchSteps(v, dh, tm)
           n == CHOOSE a \in S : \A b \in S : a <= b
       IN  /\ n <= 9 /\ packed.ret.st = "ok" =>
                 /\ packed.ret.bytes[1] \in StepMarkers(n)
                 /\ n = 1 => packed.ret.bytes = <<NULL>>
                 /\ n = 2 /\ v \in tm.true_values => packed.ret.bytes = <<MARKER_TRUE>>
                 /\ n = 2 /\ v \notin tm.true_values => packed.ret.bytes = <<MARKER_FALSE>>
           /\ n <= 6 => packed.ret.st = "ok"
           /\ n = 10 =>
                 LET t == call_transformer(CHOOSE f \in get_transformer(dh, v) : TRUE, v)
                 IN  /\ t.st = "ok" => packed.ret = pack_with(cell.val, t.val, dh)
                     /\ t.st # "ok" => packed.ret.st = "err" /\ packed.ret.kind = t.kind
           /\ n = 11 =>
                 /\ packed.ret.st = "err"
                 /\ packed.ret.kind = "ValueError"
                 /\ packed.ret.msg = "Values of this type are not supported"

\* C18 witness: a true-equivalent that is also an integer was written as
\* 0xC3 alone
C18_Witness ==
    /\ cell.set /\ cell.val.st = "ok"
    /\ packed.value = PyBool(TRUE)
    /\ packed.value \in cell.val.tm.true_values
    /\ is_instance(packed.value, cell.val.tm.int_types)
    /\ packed.ret = [st |-> "ok", bytes |-> <<MARKER_TRUE>>]

\* the family that testing the composite nibbles first gives the byte b
NibbleFirst(b) ==
    IF b \div 16 = 8 THEN "str"
    ELSE IF b \div 16 = 9 THEN "list"
    ELSE IF b \div 16 = 10 THEN "dict"
    ELSE IF b \div 16 = 11 THEN "struct"
    ELSE IF (IF b >= 128 THEN b - 256 ELSE b) >= -16 THEN "int"
    ELSE "other"

\* C19: for every byte b put alone in a buffer, unpack returns a tiny
\* integer (an int, one byte consumed) exactly when b is in 0x00-0x7F or
\* 0xF0-0xFF, its value is b read as a signed 8-bit number, and what it
\* returns is of the family b has when the composite nibbles are tested
\* first: never an int when the high nibble is 0x8, 0x9, 0xA or 0xB.
C19_MarkerClassification ==
    (origin = "marker" /\ Len(buffer) = 1 /\ decoded # <<>>)
    => LET b == buffer[1]
           r == decoded[1]
           tiny == r.st = "ok" /\ r.val.k = "int" /\ r.idx = 1
       IN  /\ tiny <=> (b \in (0..127) \cup (240..255))
           /\ tiny => r.val = PyInt(I64(IF b >= 128 THEN b - 256 ELSE b))
           /\ tiny <=> NibbleFirst(b) = "int"
           /\ (b \div 16 \in 8..11 /\ r.st = "ok") => r.val.k = NibbleFirst(b)
           /\ b \in {TINY_STRING, TINY_LIST, TINY_MAP} => r.st = "ok"

\* C19 witness: the byte 0x90, negative as a signed byte, was decoded as the
\* empty list; the byte 0xF0 as the tiny integer -16
C19_Witness ==
    /\ origin = "marker" /\ Len(buffer) = 1 /\ decoded # <<>>
    /\ \/ buffer[1] = TINY_LIST /\ decoded[1].st = "ok" /\ decoded[1].val = PyList(<<>>)
       \/ buffer[1] = 240 /\ decoded[1].st = "ok" /\ decoded[1].val = PyInt(I64(-16))


\* C20: once an initialization has completed with a table, whether or not
\* a pack call was refused with the "while loading" error before, the
\* stored table never changes, and every pack call made from then on gets
\* that table: it returns what the encoder writes with it, never the
\* "while loading" error.
C20_LostRaceNotPermanent ==
    [][(cell.set /\ cell.val.st = "ok")
       => /\ cell' = cell
          /\ \A c \in 1..NumCallers :
                frames'[c].n = frames[c].n + 1
                => /\ frames'[c].pc = "idle"
                   /\ frames'[c].ret # WhileLoading
                   /\ frames'[c].ret =
                          into_bytes(write(<<>>, frames'[c].value, NoDehydration,
                                           cell.val.tm))]_vars

\* C20 witness: a call was refused while the initialization ran, the
\* initialization stored a table, and a call made after that succeeded
C20_Witness ==
    /\ cell.set /\ cell.val.st = "ok"
    /\ \E c, d \in 1..NumCallers :
          /\ c # d
          /\ frames[d].ret = WhileLoading
          /\ frames[c].n = 2
          /\ frames[c].ret.st = "ok"


\* C21: the initializer runs at most once; when it returns, what it
\* returned, an error included, is stored in the cell; and once the cell
\* holds an error the cell never changes, the initializer is not run again
\* and every pack call, whatever its argument, fails with the stored error.
C21_FailedInitSticky ==
    [][/\ initRuns' <= 1
       /\ \A c \in 1..NumCallers :
            (frames[c].pc = "init" /\ frames'[c].pc = "idle")
            => /\ cell'.set
               /\ \E outcome \in ImportOutcomes : cell'.val = init(outcome)
               /\ cell'.val.st = "err" =>
                     frames'[c].ret = [st |-> "err", kind |-> cell'.val.kind,
                                       msg |-> cell'.val.msg]
       /\ (cell.set /\ cell.val.st = "err")
          => /\ cell' = cell
             /\ initRuns' = initRuns
             /\ \A c \in 1..NumCallers :
                   frames'[c].n = frames[c].n + 1
                   => /\ frames'[c].pc = "idle"
                      /\ frames'[c].ret = [st |-> "err", kind |-> cell.val.kind,
                                           msg |-> cell.val.msg]]_vars

\* C21 witness: the initializer failed for a missing name, and two later
\* calls with different arguments failed with the stored error
C21_Witness ==
    /\ cell.set /\ cell.val.st = "err" /\ cell.val.kind = "ValueError"
    /\ initRuns = 1
    /\ \E c, d \in 1..NumCallers :
          /\ c # d
          /\ frames[c].n = 2 /\ frames[d].n = 2
          /\ frames[c].value # frames[d].value
          /\ frames[c].ret = [st |-> "err", kind |-> cell.val.kind, msg |-> cell.val.msg]
          /\ frames[d].ret = frames[c].ret


\* what a field holds once the transform f has been applied, innermost
\* first, to the Structures of the value v
RECURSIVE FieldResult(_, _)
FieldResult(v, f) ==
    IF v.k = "struct" THEN
        LET c == call_hook(f, Structure(v.tag, [j \in 1..Len(v.fields) |->
                                                  FieldResult(v.fields[j], f)]))
        IN  IF c.st = "ok" THEN c.val ELSE [k |-> "raised"]
    ELSE IF v.k = "list" THEN
        PyList([j \in 1..Len(v.items) |-> FieldResult(v.items[j], f)])
    ELSE IF v.k = "dict" THEN
        PyDict([j \in 1..Len(v.entries) |->
                  <<v.entries[j][1], FieldResult(v.entries[j][2], f)>>])
    ELSE v

\* the calls of f for the Structures of the value v bottom-up: those of the
\* fields in field order, then the one of the Structure with the fields'
\* results
RECURSIVE BottomUp(_, _)
RECURSIVE BottomUpSeq(_, _, _)
BottomUpSeq(vs, j, f) ==
    IF j > Len(vs) THEN <<>> ELSE BottomUp(vs[j], f) \o BottomUpSeq(vs, j + 1, f)

BottomUp(v, f) ==
    IF v.k = "struct" THEN
        BottomUpSeq(v.fields, 1, f)
        \o <<<<f, Structure(v.tag, [j \in 1..Len(v.fields) |->
                                      FieldResult(v.fields[j], f)])>>>>
    ELSE IF v.k = "list" THEN BottomUpSeq(v.items, 1, f)
    ELSE IF v.k = "dict" THEN
        BottomUpSeq([j \in 1..Len(v.entries) |-> v.entries[j][2]], 1, f)
    ELSE <<>>

\* C22: the calls an unpack call makes of the transform found for
\* Structures are, in order, a prefix of the bottom-up calls for the value
\* the whole bytes hold: inner structures first, in field order, each
\* enclosing structure after them and with the inner results as its fields.
\* A call that succeeds makes them all; no call follows one that raised;
\* and when the value is a Structure and a field could not be decoded or an
\* inner transform raised, the transform of that Structure was not called.
C22_BottomUpHydration ==
    \A j \in 1..Len(decoded) :
        (/\ hooks.present
         /\ get_item(hooks, ClassKey("Structure")) # {})
        => LET start == IF j = 1 THEN 0 ELSE decoded[j - 1].idx
               whole == IF origin = "prefix" THEN stream[1].bytes ELSE buffer
               raw == unpack(whole, start, NoHydration)
               f == CHOOSE g \in get_item(hooks, ClassKey("Structure")) : TRUE
               calls == decoded[j].calls
           IN  raw.st = "ok" =>
                 LET all == BottomUp(raw.val, f)
                 IN  /\ Len(calls) <= Len(all)
                     /\ calls = SubSeq(all, 1, Len(calls))
                     /\ \A c \in 1..(Len(calls) - 1) :
                            call_hook(f, calls[c][2]).st = "ok"
                     /\ decoded[j].st = "ok" => calls = all
                     /\ (/\ decoded[j].st # "ok"
                         /\ raw.val.k = "struct"
                         /\ Len(calls) = Len(all)) =>
                            call_hook(f, calls[Len(calls)][2]).st = "err"

\* C22 witness: in a structure holding a structure and a list with a
\* structure, the transform was called for the first inner structure, raised
\* for the second, and was not called for the enclosing one
C22_Witness ==
    /\ decoded # <<>>
    /\ decoded[1].st = "err"
    /\ decoded[1].msg = "hydration hook raised"
    /\ Len(decoded[1].calls) = 2
    /\ decoded[1].calls[1][2].tag = 78
    /\ decoded[1].calls[2][2].tag = 79

==========================================================================
